---- MODULE Spec2Model ----
\* SimpleChatModel: the transcript of one chat session (human/assistant turns),
\* its mutating operations and its serialization.
EXTENDS Integers, Sequences, FiniteSets, TLC

\* ---------------------------------------------------------------- bounds
MaxLen == 3
MaxItems == 2
MaxObjects == 9

\* ------------------------------------------------- optional (undefined) values
\* A JavaScript optional value: <<>> is undefined, <<v>> is the value v.
None == <<>>

Some(v) == <<v>>

\* JavaScript truthiness of an optional string: defined and not "".
Truthy(o) == o # None /\ o[1] # ""

\* ---------------------------------------------------------------- inputs
HumanTexts == {"", "@a.ts"}

BotTexts == {"", "hello "}

DisplayTexts == {"shown"}

Errors == {"boom", "limit"}

Uris == {"a.ts", "b.ts", "secret.env"}

IgnoredUris == {"secret.env"}

Speakers == {"human", "assistant"}

ContextItem(u) == [uri |-> u]

RECURSIVE SeqsUpTo(_, _)
SeqsUpTo(S, n) ==
    IF n = 0 THEN {<<>>}
    ELSE LET shorter == SeqsUpTo(S, n - 1)
         IN  shorter \cup {Append(s, x) : s \in {t \in shorter : Len(t) = n - 1}, x \in S}

ModelIDs == {"anthropic/claude-2.0", "openai/gpt-4"}

SessionIDs == {"Mon, 01 Jan 2024 10:00:00 GMT", "Tue, 02 Jan 2024 11:30:00 GMT"}

\* The names of the repositories of the repo lists the caller passes.
RepoLists == {<<"cody">>, <<"cody", "sourcegraph">>}

RepoNames == {"cody", "renamed"}

\* Every list of at most MaxItems context items.
ItemLists == SeqsUpTo({ContextItem(u) : u \in Uris}, MaxItems)

\* The context lists attached where the shape of the context is not at stake.
MentionLists == {<<ContextItem("secret.env"), ContextItem("a.ts")>>}

DisplayTextArgs == {None} \cup {Some(d) : d \in DisplayTexts}

\* From two turns before the end (counted from the end) to one past the last turn.
Indexes == (0 - 2) .. MaxLen

\* ------------------------------------------------------- external collaborators
\* isCodyIgnoredFile(uri): pure predicate classifying a context item as ignored.
isCodyIgnoredFile(uri) == uri \in IgnoredUris

\* errorToChatError(error): the normalized error payload of a failure.
errorToChatError(e) == [kind |-> "ChatError", message |-> e]

\* createDisplayTextWithFileLinks(text, files): the text with every mention of
\* an attached file turned into a markdown link.
createDisplayTextWithFileLinks(text, files) ==
    IF text = "@a.ts" /\ \E i \in 1..Len(files) : files[i].uri = "a.ts"
    THEN "[_@a.ts_](a.ts)"
    ELSE text

\* reformatBotMessageForChat(text, ''): the assistant text with trailing
\* whitespace removed.
reformatBotMessageForChat(text) == IF text = "hello " THEN "hello" ELSE text

\* ---------------------------------------------------------------- titles
\* A title is computed character by character: Chars(s) is the string s as the
\* sequence of its characters.
Chars(s) ==
    CASE s = "" -> <<>>
      [] s = "@a.ts" -> <<"@", "a", ".", "t", "s">>
      [] s = "[_@a.ts_](a.ts)" -> <<"[", "_", "@", "a", ".", "t", "s", "_", "]", "(", "a", ".", "t", "s", ")">>
      [] s = "explain the chat session model please" -> <<"e", "x", "p", "l", "a", "i", "n", " ", "t", "h", "e", " ", "c", "h", "a", "t", " ", "s", "e", "s", "s", "i", "o", "n", " ", "m", "o", "d", "e", "l", " ", "p", "l", "e", "a", "s", "e">>
      [] s = "New Chat" -> <<"N", "e", "w", " ", "C", "h", "a", "t">>
      [] s = "Foo" -> <<"F", "o", "o">>

TitleLimit == 25

Ellipsis == <<".", ".", ".">>

\* String.prototype.trim
RECURSIVE TrimStart(_)
TrimStart(cs) == IF cs # <<>> /\ Head(cs) = " " THEN TrimStart(Tail(cs)) ELSE cs

RECURSIVE TrimEnd(_)
TrimEnd(cs) ==
    IF cs # <<>> /\ cs[Len(cs)] = " " THEN TrimEnd(SubSeq(cs, 1, Len(cs) - 1)) ELSE cs

Trim(cs) == TrimEnd(TrimStart(cs))

\* String.prototype.slice(0, n)
SliceTo(cs, n) == SubSeq(cs, 1, IF n < Len(cs) THEN n ELSE Len(cs))

\* A match of /\[_(.+?)_]\((.+?)\)/ at the start of cs: the positions q of the
\* "_" that closes group 1 and r of the ")" that closes group 2, both groups
\* as short as a match allows; {} when there is none.
LinkMatches(cs) ==
    IF Len(cs) >= 2 /\ cs[1] = "[" /\ cs[2] = "_"
    THEN {m \in (4..Len(cs)) \X (4..Len(cs)) :
            /\ m[1] + 2 <= Len(cs)
            /\ cs[m[1]] = "_" /\ cs[m[1] + 1] = "]" /\ cs[m[1] + 2] = "("
            /\ m[2] >= m[1] + 4
            /\ cs[m[2]] = ")"}
    ELSE {}

LinkMatch(cs) ==
    CHOOSE m \in LinkMatches(cs) :
        \A n \in LinkMatches(cs) : m[1] < n[1] \/ (m[1] = n[1] /\ m[2] <= n[2])

\* lastDisplayText.replaceAll(MARKDOWN_LINK_REGEX, '$1')
RECURSIVE ReplaceLinks(_)
ReplaceLinks(cs) ==
    IF cs = <<>> THEN <<>>
    ELSE IF LinkMatches(cs) # {}
    THEN SubSeq(cs, 3, LinkMatch(cs)[1] - 1)
            \o ReplaceLinks(SubSeq(cs, LinkMatch(cs)[2] + 1, Len(cs)))
    ELSE <<Head(cs)>> \o ReplaceLinks(Tail(cs))

\* Mutant: a long title is not truncated.
getChatPanelTitle_NoTruncation(lastDisplayText) ==
    IF lastDisplayText = <<>> THEN Chars("New Chat")
    ELSE Trim(ReplaceLinks(lastDisplayText))

\* getChatPanelTitle(lastDisplayText) with truncateTitle = true
getChatPanelTitle(lastDisplayText) ==
    IF lastDisplayText = <<>> THEN Chars("New Chat")
    ELSE LET text == Trim(ReplaceLinks(lastDisplayText))
         IN  IF Len(text) > TitleLimit
             THEN Trim(SliceTo(text, TitleLimit)) \o Ellipsis
             ELSE text

\* ---------------------------------------------------------------- turns
ChatMessage(speaker, text, displayText, contextFiles, error) ==
    [speaker |-> speaker, text |-> text, displayText |-> displayText,
     contextFiles |-> contextFiles, error |-> error]

\* Array.prototype.at(index) on a 1-based TLA+ sequence holding a 0-based array:
\* a negative index counts from the end; out of range is undefined.
At(msgs, index) ==
    LET i == IF index < 0 THEN Len(msgs) + index ELSE index
    IN  IF i >= 0 /\ i < Len(msgs) THEN Some(msgs[i + 1]) ELSE None

\* messages.at(index)?.speaker
SpeakerAt(msgs, index) ==
    IF At(msgs, index) = None THEN "undefined" ELSE At(msgs, index)[1].speaker

\* Array.prototype.pop: the array without its last element.
Pop(msgs) == SubSeq(msgs, 1, Len(msgs) - 1)

\* Array.prototype.splice(start): everything from start on is removed; a
\* negative start counts from the end (clamped at 0), a start past the end
\* removes nothing.
Splice(msgs, start) ==
    LET s == IF start < 0
             THEN (IF Len(msgs) + start < 0 THEN 0 ELSE Len(msgs) + start)
             ELSE (IF start > Len(msgs) THEN Len(msgs) ELSE start)
    IN  SubSeq(msgs, 1, s)

\* ------------------------------------------------------- outcome of an operation
NoError == "none"

Ok(msgs) == [messages |-> msgs, raised |-> NoError]

Throw(msgs, what) == [messages |-> msgs, raised |-> what]

\* ---------------------------------------------------------------- operations
isEmpty(msgs) == Len(msgs) = 0

\* c => !isCodyIgnoredFile(c.uri)
NotIgnored(c) == ~isCodyIgnoredFile(c.uri)

\* Mutant: the context is attached unfiltered.
setLastMessageContext_NoFilter(msgs, newContextUsed) ==
    IF At(msgs, -1) = None
    THEN Throw(msgs, "no last message")
    ELSE IF SpeakerAt(msgs, -1) # "human"
    THEN Throw(msgs, "Cannot set new context used for bot message")
    ELSE Ok([msgs EXCEPT ![Len(msgs)].contextFiles = Some(newContextUsed)])

\* Mutant: the speaker of the last turn is not checked.
setLastMessageContext_NoSpeakerCheck(msgs, newContextUsed) ==
    IF At(msgs, -1) = None
    THEN Throw(msgs, "no last message")
    ELSE Ok([msgs EXCEPT ![Len(msgs)].contextFiles =
                Some(SelectSeq(newContextUsed, NotIgnored))])

setLastMessageContext(msgs, newContextUsed) ==
    IF At(msgs, -1) = None
    THEN Throw(msgs, "no last message")
    ELSE IF SpeakerAt(msgs, -1) # "human"
    THEN Throw(msgs, "Cannot set new context used for bot message")
    ELSE Ok([msgs EXCEPT ![Len(msgs)].contextFiles =
                Some(SelectSeq(newContextUsed, NotIgnored))])

\* Mutant: the guard on the last speaker is missing.
addHumanMessage_NoGuard(msgs, text) ==
    Ok(Append(msgs, ChatMessage("human", text, None, None, None)))

addHumanMessage(msgs, text) ==
    IF SpeakerAt(msgs, -1) = "human"
    THEN Throw(msgs, "Cannot add a user message after a user message")
    ELSE Ok(Append(msgs, ChatMessage("human", text, None, None, None)))

\* Mutant: an assistant turn with text is replaced like a placeholder.
addBotMessage_AlwaysReplaces(msgs, text, displayText) ==
    IF SpeakerAt(msgs, -1) = "assistant"
    THEN Ok(Append(Pop(msgs),
            ChatMessage("assistant", text, displayText, None, At(msgs, -1)[1].error)))
    ELSE Ok(Append(msgs, ChatMessage("assistant", text, displayText, None, None)))

\* Mutant: the error of the placeholder is not carried forward.
addBotMessage_DropsError(msgs, text, displayText) ==
    IF SpeakerAt(msgs, -1) = "assistant"
    THEN IF Truthy(At(msgs, -1)[1].text)
         THEN Throw(msgs, "Cannot add a bot message after a bot message")
         ELSE Ok(Append(Pop(msgs), ChatMessage("assistant", text, displayText, None, None)))
    ELSE Ok(Append(msgs, ChatMessage("assistant", text, displayText, None, None)))

\* Mutant: the last turn is popped whoever its speaker is.
addBotMessage_PopsAny(msgs, text, displayText) ==
    IF SpeakerAt(msgs, -1) = "assistant" /\ Truthy(At(msgs, -1)[1].text)
    THEN Throw(msgs, "Cannot add a bot message after a bot message")
    ELSE IF At(msgs, -1) # None
    THEN Ok(Append(Pop(msgs),
            ChatMessage("assistant", text, displayText, None, At(msgs, -1)[1].error)))
    ELSE Ok(Append(msgs, ChatMessage("assistant", text, displayText, None, None)))

addBotMessage(msgs, text, displayText) ==
    IF SpeakerAt(msgs, -1) = "assistant"
    THEN IF Truthy(At(msgs, -1)[1].text)
         THEN Throw(msgs, "Cannot add a bot message after a bot message")
         ELSE Ok(Append(Pop(msgs),
                 ChatMessage("assistant", text, displayText, None, At(msgs, -1)[1].error)))
    ELSE Ok(Append(msgs, ChatMessage("assistant", text, displayText, None, None)))

\* Mutant: the fields of the popped assistant turn are not reused.
addErrorAsBotMessage_ResetsFields(msgs, error) ==
    IF SpeakerAt(msgs, -1) = "assistant"
    THEN Ok(Append(Pop(msgs),
            ChatMessage("assistant", None, None, None, Some(errorToChatError(error)))))
    ELSE Ok(Append(msgs,
            ChatMessage("assistant", None, None, None, Some(errorToChatError(error)))))

\* Mutant: the last assistant turn is not popped before the push.
addErrorAsBotMessage_NoPop(msgs, error) ==
    IF SpeakerAt(msgs, -1) = "assistant"
    THEN Ok(Append(msgs,
            [At(msgs, -1)[1] EXCEPT !.speaker = "assistant",
                                    !.error = Some(errorToChatError(error))]))
    ELSE Ok(Append(msgs,
            ChatMessage("assistant", None, None, None, Some(errorToChatError(error)))))

addErrorAsBotMessage(msgs, error) ==
    IF SpeakerAt(msgs, -1) = "assistant"
    THEN Ok(Append(Pop(msgs),
            [At(msgs, -1)[1] EXCEPT !.speaker = "assistant",
                                    !.error = Some(errorToChatError(error))]))
    ELSE Ok(Append(msgs,
            ChatMessage("assistant", None, None, None, Some(errorToChatError(error)))))

\* Array.prototype.findLastIndex for the test speaker === s, scanning down from
\* index k: the index found, or -1.
RECURSIVE FindLastIndexFrom(_, _, _)
FindLastIndexFrom(msgs, speaker, k) ==
    IF k < 0 THEN -1
    ELSE IF msgs[k + 1].speaker = speaker THEN k
    ELSE FindLastIndexFrom(msgs, speaker, k - 1)

\* The value returned: always a number (None would be undefined).
getLastSpeakerMessageIndex(msgs, speaker) ==
    Some(FindLastIndexFrom(msgs, speaker, Len(msgs) - 1))

\* Mutant: the turn at index is kept (off by one).
removeMessagesFromIndex_KeepsIndex(msgs, index, expectedSpeaker) ==
    IF isEmpty(msgs)
    THEN Throw(msgs, "SimpleChatModel.removeMessagesFromIndex: not message to remove")
    ELSE IF SpeakerAt(msgs, index) # expectedSpeaker
    THEN Throw(msgs, "SimpleChatModel.removeMessagesFromIndex: expected speaker mismatch")
    ELSE Ok(Splice(msgs, index + 1))

\* Mutant: the speaker at index is not compared with the expected speaker.
removeMessagesFromIndex_NoSpeakerCheck(msgs, index, expectedSpeaker) ==
    IF isEmpty(msgs)
    THEN Throw(msgs, "SimpleChatModel.removeMessagesFromIndex: not message to remove")
    ELSE Ok(Splice(msgs, index))

removeMessagesFromIndex(msgs, index, expectedSpeaker) ==
    IF isEmpty(msgs)
    THEN Throw(msgs, "SimpleChatModel.removeMessagesFromIndex: not message to remove")
    ELSE IF SpeakerAt(msgs, index) # expectedSpeaker
    THEN Throw(msgs, "SimpleChatModel.removeMessagesFromIndex: expected speaker mismatch")
    ELSE Ok(Splice(msgs, index))

\* message.contextFiles ?? []
ContextFilesOrEmpty(message) ==
    IF message.contextFiles = None THEN <<>> ELSE message.contextFiles[1]

getDisplayText(message) ==
    IF Truthy(message.displayText) THEN message.displayText
    ELSE IF message.speaker = "human" /\ Truthy(message.text)
    THEN Some(createDisplayTextWithFileLinks(message.text[1], ContextFilesOrEmpty(message)))
    ELSE IF message.speaker = "assistant" /\ Truthy(message.text)
    THEN Some(reformatBotMessageForChat(message.text[1]))
    ELSE message.text

\* Mutant: the first human turn is found instead of the last.
getLastHumanMessage_First(msgs) ==
    IF \E i \in 1..Len(msgs) : msgs[i].speaker = "human"
    THEN Some(msgs[CHOOSE i \in 1..Len(msgs) :
                    /\ msgs[i].speaker = "human"
                    /\ \A j \in 1..(i - 1) : msgs[j].speaker # "human"])
    ELSE None

\* findLast(this.messages, message => message.speaker === 'human')
getLastHumanMessage(msgs) ==
    IF FindLastIndexFrom(msgs, "human", Len(msgs) - 1) < 0 THEN None
    ELSE Some(msgs[FindLastIndexFrom(msgs, "human", Len(msgs) - 1) + 1])

\* Mutant: the custom title is not consulted.
getChatTitle_IgnoresCustomTitle(msgs, title) ==
    LET lastHumanMessage == getLastHumanMessage(msgs)
        text == IF lastHumanMessage = None THEN None
                ELSE getDisplayText(lastHumanMessage[1])
    IN  IF Truthy(text) THEN getChatPanelTitle(Chars(text[1])) ELSE Chars("New Chat")

\* The title as the sequence of its characters.
getChatTitle(msgs, title) ==
    IF Truthy(title) THEN Chars(title[1])
    ELSE LET lastHumanMessage == getLastHumanMessage(msgs)
             text == IF lastHumanMessage = None THEN None
                     ELSE getDisplayText(lastHumanMessage[1])
         IN  IF Truthy(text) THEN getChatPanelTitle(Chars(text[1])) ELSE Chars("New Chat")

toSerializedInteractionMessage(message) ==
    [message EXCEPT !.displayText = getDisplayText(message)]

\* Mutant: the speaker of the human slot is not checked.
messageToSerializedChatInteraction_NoHumanCheck(humanMessage, assistantMessage) ==
    IF humanMessage = None
    THEN [raised |-> "expected human message, got bot", interaction |-> None]
    ELSE IF assistantMessage # None /\ assistantMessage[1].speaker # "assistant"
    THEN [raised |-> "expected bot message to have speaker == 'assistant'",
          interaction |-> None]
    ELSE [raised |-> NoError,
          interaction |->
            Some([humanMessage |-> toSerializedInteractionMessage(humanMessage[1]),
                  assistantMessage |->
                     IF assistantMessage # None
                     THEN Some(toSerializedInteractionMessage(assistantMessage[1]))
                     ELSE None])]

\* humanMessage and assistantMessage are optional turns (None for undefined);
\* the assistantMessage of the result is None for null.
messageToSerializedChatInteraction(humanMessage, assistantMessage) ==
    IF humanMessage = None \/ humanMessage[1].speaker # "human"
    THEN [raised |-> "expected human message, got bot", interaction |-> None]
    ELSE IF assistantMessage # None /\ assistantMessage[1].speaker # "assistant"
    THEN [raised |-> "expected bot message to have speaker == 'assistant'",
          interaction |-> None]
    ELSE [raised |-> NoError,
          interaction |->
            Some([humanMessage |-> toSerializedInteractionMessage(humanMessage[1]),
                  assistantMessage |->
                     IF assistantMessage # None
                     THEN Some(toSerializedInteractionMessage(assistantMessage[1]))
                     ELSE None])]

\* Mutant: the loop advances one turn at a time instead of one pair.
RECURSIVE SerializeLoop_StepOne(_, _, _)
SerializeLoop_StepOne(msgs, i, interactions) ==
    IF ~(i < Len(msgs)) THEN [raised |-> NoError, interactions |-> interactions]
    ELSE LET r == messageToSerializedChatInteraction(At(msgs, i), At(msgs, i + 1))
         IN  IF r.raised # NoError
             THEN [raised |-> r.raised, interactions |-> <<>>]
             ELSE SerializeLoop_StepOne(msgs, i + 1, Append(interactions, r.interaction[1]))

\* The loop of toSerializedChatTranscript from offset i on, given the
\* interactions pushed so far.
RECURSIVE SerializeLoop(_, _, _)
SerializeLoop(msgs, i, interactions) ==
    IF ~(i < Len(msgs)) THEN [raised |-> NoError, interactions |-> interactions]
    ELSE LET r == messageToSerializedChatInteraction(At(msgs, i), At(msgs, i + 1))
         IN  IF r.raised # NoError
             THEN [raised |-> r.raised, interactions |-> <<>>]
             ELSE SerializeLoop(msgs, i + 2, Append(interactions, r.interaction[1]))

toSerializedChatTranscript(msgs) == SerializeLoop(msgs, 0, <<>>)

\* ------------------------------------------------------------ objects
\* Repo arrays and Repo objects live in a heap of cells, named by address, so
\* that two references to one object can be told from two equal copies.
FreeCell == [kind |-> "free", elems |-> <<>>, name |-> ""]

EmptyHeap == [a \in 1..MaxObjects |-> FreeCell]

FreeAddresses(h) == {a \in DOMAIN h : h[a].kind = "free"}

RECURSIVE Ascending(_)
Ascending(S) ==
    IF S = {} THEN <<>>
    ELSE LET m == CHOOSE x \in S : \A y \in S : x <= y
         IN  <<m>> \o Ascending(S \ {m})

\* Room for a new array of n elements.
CanAllocate(h, n) == Cardinality(FreeAddresses(h)) >= n + 1

\* A new array of new Repo objects with the given names: [{name}, ...]
NewRepoArray(h, names) ==
    LET free == Ascending(FreeAddresses(h))
        elems == [i \in 1..Len(names) |-> free[i + 1]]
    IN  [ref |-> free[1],
         heap |-> [a \in DOMAIN h |->
                     IF a = free[1] THEN [kind |-> "array", elems |-> elems, name |-> ""]
                     ELSE IF \E i \in 1..Len(names) : elems[i] = a
                     THEN [kind |-> "repo",
                           elems |-> <<>>,
                           name |-> names[CHOOSE i \in 1..Len(names) : elems[i] = a]]
                     ELSE h[a]]]

\* The names held by the Repo objects of the array at ref.
NamesOf(h, ref) == [i \in 1..Len(h[ref].elems) |-> h[h[ref].elems[i]].name]

\* repos.map(r => ({ ...r })): a new array of new objects with the same fields.
CopyRepos(h, ref) == NewRepoArray(h, NamesOf(h, ref))

\* The value of an optional repo list: undefined, or its Repo records in order.
ReposValue(h, repos) ==
    IF repos = None THEN None
    ELSE Some([i \in 1..Len(h[repos[1]].elems) |-> [name |-> h[h[repos[1]].elems[i]].name]])

\* The cells reachable from a set of optional array references.
Reachable(h, roots) ==
    LET arrays == {r[1] : r \in {x \in roots : x # None}}
    IN  arrays \cup UNION {{h[a].elems[i] : i \in 1..Len(h[a].elems)} : a \in arrays}

\* The heap once the cells no reference leads to are released.
Collect(h, roots) == [a \in DOMAIN h |-> IF a \in Reachable(h, roots) THEN h[a] ELSE FreeCell]

\* this.selectedRepos = repos ? repos.map(r => ({ ...r })) : undefined
setSelectedRepos(h, repos) ==
    IF repos = None THEN [heap |-> h, ref |-> None]
    ELSE [heap |-> CopyRepos(h, repos[1]).heap, ref |-> Some(CopyRepos(h, repos[1]).ref)]

\* return this.selectedRepos ? this.selectedRepos.map(r => ({ ...r })) : undefined
getSelectedRepos(h, selected) ==
    IF selected = None THEN [heap |-> h, ref |-> None]
    ELSE [heap |-> CopyRepos(h, selected[1]).heap, ref |-> Some(CopyRepos(h, selected[1]).ref)]

\* Mutant: the model identifier is written where the session identifier belongs.
SerializedRecord_ModelAsId(sid, mid, title, enhancedContext) ==
    [id |-> mid, chatModel |-> mid, chatTitle |-> title,
     lastInteractionTimestamp |-> sid, enhancedContext |-> enhancedContext]

\* The fields of the record toSerializedChatTranscript returns, interactions
\* aside; enhancedContext is None when absent.
SerializedRecord(sid, mid, title, enhancedContext) ==
    [id |-> sid, chatModel |-> mid, chatTitle |-> title,
     lastInteractionTimestamp |-> sid, enhancedContext |-> enhancedContext]

\* ---------------------------------------------------------------- state
VARIABLES
    messages,   \* this.messages
    prev,       \* this.messages as it was when the last operation was called
    call,       \* the last operation called, with its arguments
    raised,     \* the message of the Error the last operation threw, or NoError
    ret,        \* the interactions the last operation returned (<<>> for void)
    modelID,          \* this.modelID
    sessionID,        \* this.sessionID
    customChatTitle,  \* this.customChatTitle (None for undefined)
    selectedRepos,    \* this.selectedRepos: a reference to an array (None for undefined)
    heap,             \* the Repo arrays and Repo objects in existence
    callerRepos,      \* the array the caller built and passed in last, still held by the caller
    returnedRepos,    \* the array handed out to the caller last, held by the caller
    out               \* what the last operation returned besides interactions (None for void)

session == <<modelID, sessionID, customChatTitle, selectedRepos>>

objects == <<heap, callerRepos, returnedRepos>>

vars == <<messages, prev, call, raised, ret, modelID, sessionID, customChatTitle,
          selectedRepos, heap, callerRepos, returnedRepos, out>>

NoCall ==
    [name |-> "constructor", text |-> None, displayText |-> None, error |-> "",
     items |-> <<>>, index |-> 0, speaker |-> ""]

\* new SimpleChatModel(modelID): messages defaults to [], sessionID to the
\* date of construction, customChatTitle and selectedRepos to undefined.
Init ==
    /\ messages = <<>>
    /\ prev = <<>>
    /\ call = NoCall
    /\ raised = NoError
    /\ ret = <<>>
    /\ modelID = "anthropic/claude-2.0"
    /\ sessionID = "Mon, 01 Jan 2024 10:00:00 GMT"
    /\ customChatTitle = None
    /\ selectedRepos = None
    /\ heap = EmptyHeap
    /\ callerRepos = None
    /\ returnedRepos = None
    /\ out = None

\* The transcript an operation leaves is within the bound of the model.
Fits(r) == Len(r.messages) <= MaxLen

\* A mutating operation was called with outcome r.
Mutate(c, r) ==
    /\ messages' = r.messages
    /\ prev' = messages
    /\ call' = c
    /\ raised' = r.raised
    /\ ret' = <<>>
    /\ out' = None
    /\ UNCHANGED <<session, objects>>

SetLastMessageContext(items) ==
    /\ Fits(setLastMessageContext(messages, items))
    /\ Mutate([NoCall EXCEPT !.name = "setLastMessageContext", !.items = items],
              setLastMessageContext(messages, items))

AddHumanMessage(text) ==
    /\ Fits(addHumanMessage(messages, Some(text)))
    /\ Mutate([NoCall EXCEPT !.name = "addHumanMessage", !.text = Some(text)],
              addHumanMessage(messages, Some(text)))

AddBotMessage(text, displayText) ==
    /\ Fits(addBotMessage(messages, Some(text), displayText))
    /\ Mutate([NoCall EXCEPT !.name = "addBotMessage", !.text = Some(text),
                             !.displayText = displayText],
              addBotMessage(messages, Some(text), displayText))

AddErrorAsBotMessage(error) ==
    /\ Fits(addErrorAsBotMessage(messages, error))
    /\ Mutate([NoCall EXCEPT !.name = "addErrorAsBotMessage", !.error = error],
              addErrorAsBotMessage(messages, error))

RemoveMessagesFromIndex(index, expectedSpeaker) ==
    /\ Fits(removeMessagesFromIndex(messages, index, expectedSpeaker))
    /\ Mutate([NoCall EXCEPT !.name = "removeMessagesFromIndex", !.index = index,
                             !.speaker = expectedSpeaker],
              removeMessagesFromIndex(messages, index, expectedSpeaker))

\* An operation that only reads was called and returned value.
Query(c, value) ==
    /\ messages' = messages
    /\ prev' = messages
    /\ call' = c
    /\ raised' = NoError
    /\ ret' = <<>>
    /\ out' = value
    /\ UNCHANGED <<session, objects>>

GetLastSpeakerMessageIndex(speaker) ==
    Query([NoCall EXCEPT !.name = "getLastSpeakerMessageIndex", !.speaker = speaker],
          getLastSpeakerMessageIndex(messages, speaker))

\* The turns once each has its displayText materialized in place.
RECURSIVE Materialized(_)
Materialized(msgs) ==
    IF msgs = <<>> THEN <<>>
    ELSE <<toSerializedInteractionMessage(Head(msgs))>> \o Materialized(Tail(msgs))

\* Mutant: displayText is written into the turns of the transcript instead of
\* into copies of them.
ToSerializedChatTranscript_InPlace ==
    LET r == toSerializedChatTranscript(messages)
        kept == Collect(heap, {selectedRepos, callerRepos})
        copy == CopyRepos(kept, selectedRepos[1])
    IN  /\ messages' = (IF r.raised = NoError THEN Materialized(messages) ELSE messages)
        /\ prev' = messages
        /\ call' = [NoCall EXCEPT !.name = "toSerializedChatTranscript"]
        /\ raised' = r.raised
        /\ ret' = r.interactions
        /\ UNCHANGED <<session, callerRepos>>
        /\ IF r.raised # NoError
           THEN out' = None /\ UNCHANGED <<heap, returnedRepos>>
           ELSE IF selectedRepos = None
           THEN /\ out' = Some(SerializedRecord(sessionID, modelID, customChatTitle, None))
                /\ UNCHANGED <<heap, returnedRepos>>
           ELSE /\ CanAllocate(kept, Len(heap[selectedRepos[1]].elems))
                /\ heap' = copy.heap
                /\ returnedRepos' = Some(copy.ref)
                /\ out' = Some(SerializedRecord(sessionID, modelID, customChatTitle,
                                                Some([selectedRepos |-> copy.ref])))

\* The record is built once the loop is through; with selectedRepos set it
\* holds a copy of the list, which is in the hands of the caller from then on.
ToSerializedChatTranscript ==
    LET r == toSerializedChatTranscript(messages)
        kept == Collect(heap, {selectedRepos, callerRepos})
        copy == CopyRepos(kept, selectedRepos[1])
    IN  /\ messages' = messages
        /\ prev' = messages
        /\ call' = [NoCall EXCEPT !.name = "toSerializedChatTranscript"]
        /\ raised' = r.raised
        /\ ret' = r.interactions
        /\ UNCHANGED <<session, callerRepos>>
        /\ IF r.raised # NoError
           THEN out' = None /\ UNCHANGED <<heap, returnedRepos>>
           ELSE IF selectedRepos = None
           THEN /\ out' = Some(SerializedRecord(sessionID, modelID, customChatTitle, None))
                /\ UNCHANGED <<heap, returnedRepos>>
           ELSE /\ CanAllocate(kept, Len(heap[selectedRepos[1]].elems))
                /\ heap' = copy.heap
                /\ returnedRepos' = Some(copy.ref)
                /\ out' = Some(SerializedRecord(sessionID, modelID, customChatTitle,
                                                Some([selectedRepos |-> copy.ref])))

GetChatTitle ==
    Query([NoCall EXCEPT !.name = "getChatTitle"],
          Some(getChatTitle(messages, customChatTitle)))

\* An operation on the fields of the session other than messages was called.
Touch(c) ==
    /\ messages' = messages
    /\ prev' = messages
    /\ call' = c
    /\ raised' = NoError
    /\ ret' = <<>>

SetCustomChatTitle(title) ==
    /\ Touch([NoCall EXCEPT !.name = "setCustomChatTitle", !.text = Some(title)])
    /\ customChatTitle' = Some(title)
    /\ out' = None
    /\ UNCHANGED <<modelID, sessionID, selectedRepos, objects>>

\* modelID is a public field, assigned by the caller.
SetModelID(id) ==
    /\ Touch([NoCall EXCEPT !.name = "modelID =", !.text = Some(id)])
    /\ modelID' = id
    /\ out' = None
    /\ UNCHANGED <<sessionID, customChatTitle, selectedRepos, objects>>

\* The caller builds a list of repos with the given names, keeps it, and
\* passes it to setSelectedRepos.
SetSelectedRepos(names) ==
    LET kept == Collect(heap, {returnedRepos})
        arg == NewRepoArray(kept, names)
        r == setSelectedRepos(arg.heap, Some(arg.ref))
    IN  /\ CanAllocate(kept, 2 * Len(names) + 1)
        /\ Touch([NoCall EXCEPT !.name = "setSelectedRepos"])
        /\ heap' = r.heap
        /\ callerRepos' = Some(arg.ref)
        /\ selectedRepos' = r.ref
        /\ out' = None
        /\ UNCHANGED <<modelID, sessionID, customChatTitle, returnedRepos>>

\* setSelectedRepos(undefined)
ClearSelectedRepos ==
    /\ Touch([NoCall EXCEPT !.name = "setSelectedRepos"])
    /\ selectedRepos' = setSelectedRepos(heap, None).ref
    /\ heap' = Collect(heap, {callerRepos, returnedRepos})
    /\ out' = None
    /\ UNCHANGED <<modelID, sessionID, customChatTitle, callerRepos, returnedRepos>>

\* The list returned is in the hands of the caller from then on.
GetSelectedRepos ==
    LET kept == Collect(heap, {selectedRepos, callerRepos})
        r == getSelectedRepos(kept, selectedRepos)
    IN  /\ selectedRepos # None => CanAllocate(kept, Len(heap[selectedRepos[1]].elems))
        /\ Touch([NoCall EXCEPT !.name = "getSelectedRepos"])
        /\ heap' = r.heap
        /\ returnedRepos' = r.ref
        /\ out' = ReposValue(r.heap, r.ref)
        /\ UNCHANGED <<session, callerRepos>>

\* The arrays the caller holds a reference to.
HeldByCaller == {r[1] : r \in {x \in {callerRepos, returnedRepos} : x # None}}

\* The caller writes a field of an element of an array it holds: r.name = name
CallerRenamesRepo(array, i, name) ==
    /\ array \in HeldByCaller
    /\ i \in 1..Len(heap[array].elems)
    /\ heap[heap[array].elems[i]].name # name
    /\ Touch([NoCall EXCEPT !.name = "caller: repo.name =", !.index = i - 1,
                            !.text = Some(name)])
    /\ heap' = [heap EXCEPT ![heap[array].elems[i]].name = name]
    /\ out' = None
    /\ UNCHANGED <<session, callerRepos, returnedRepos>>

\* The caller removes the last element of an array it holds: repos.pop()
CallerPopsRepo(array) ==
    /\ array \in HeldByCaller
    /\ Len(heap[array].elems) > 0
    /\ Touch([NoCall EXCEPT !.name = "caller: repos.pop()"])
    /\ heap' = Collect([heap EXCEPT ![array].elems = Pop(heap[array].elems)],
                       {selectedRepos, callerRepos, returnedRepos})
    /\ out' = None
    /\ UNCHANGED <<session, callerRepos, returnedRepos>>

\* Every operation of the transcript, called in any order.
Next ==
    \/ \E items \in MentionLists : SetLastMessageContext(items)
    \/ \E text \in HumanTexts : AddHumanMessage(text)
    \/ \E text \in BotTexts, displayText \in DisplayTextArgs : AddBotMessage(text, displayText)
    \/ \E error \in Errors : AddErrorAsBotMessage(error)
    \/ \E index \in Indexes, expectedSpeaker \in Speakers :
            RemoveMessagesFromIndex(index, expectedSpeaker)
    \/ ToSerializedChatTranscript
    \/ \E speaker \in Speakers : GetLastSpeakerMessageIndex(speaker)

Spec == Init /\ [][Next]_vars

\* Only addHumanMessage and addBotMessage are called.
NextAppend ==
    \/ \E text \in HumanTexts : AddHumanMessage(text)
    \/ \E text \in BotTexts, displayText \in DisplayTextArgs : AddBotMessage(text, displayText)

SpecAppend == Init /\ [][NextAppend]_vars

\* Context of every shape is attached to the human turns of a conversation.
NextContext ==
    \/ \E items \in ItemLists : SetLastMessageContext(items)
    \/ AddHumanMessage("@a.ts")
    \/ AddBotMessage("hello ", None)

SpecContext == Init /\ [][NextContext]_vars

\* new SimpleChatModel(modelID, [], sessionID): a session with any of the
\* session identifiers.
InitSession ==
    /\ messages = <<>>
    /\ prev = <<>>
    /\ call = NoCall
    /\ raised = NoError
    /\ ret = <<>>
    /\ modelID = "anthropic/claude-2.0"
    /\ sessionID \in SessionIDs
    /\ customChatTitle = None
    /\ selectedRepos = None
    /\ heap = EmptyHeap
    /\ callerRepos = None
    /\ returnedRepos = None
    /\ out = None

TitledTexts == {"", "@a.ts", "explain the chat session model please"}

TruncationIndexes == {-1, 0, 1}

Titles == {"", "Foo"}

\* The messages of a session together with its model, title and repos.
NextSession ==
    \/ \E items \in MentionLists : SetLastMessageContext(items)
    \/ AddHumanMessage("@a.ts")
    \/ AddBotMessage("hello ", None)
    \/ AddErrorAsBotMessage("boom")
    \/ ToSerializedChatTranscript
    \/ \E title \in Titles : SetCustomChatTitle(title)
    \/ \E id \in ModelIDs : SetModelID(id)
    \/ SetSelectedRepos(<<"cody">>)
    \/ ClearSelectedRepos

SpecSession == InitSession /\ [][NextSession]_vars

\* The messages of a session together with its title.
NextTitle ==
    \/ \E items \in MentionLists : SetLastMessageContext(items)
    \/ \E text \in TitledTexts : AddHumanMessage(text)
    \/ AddBotMessage("hello ", None)
    \/ AddErrorAsBotMessage("boom")
    \/ \E index \in TruncationIndexes, expectedSpeaker \in Speakers :
            RemoveMessagesFromIndex(index, expectedSpeaker)
    \/ \E title \in Titles : SetCustomChatTitle(title)
    \/ GetChatTitle

SpecTitle == Init /\ [][NextTitle]_vars

\* new SimpleChatModel(modelID, [], sessionID, undefined, repos): the
\* parameter property stores the array it is given; the caller still holds it.
InitRepos ==
    /\ messages = <<>>
    /\ prev = <<>>
    /\ call = NoCall
    /\ raised = NoError
    /\ ret = <<>>
    /\ modelID = "anthropic/claude-2.0"
    /\ sessionID = "Mon, 01 Jan 2024 10:00:00 GMT"
    /\ customChatTitle = None
    /\ \/ /\ selectedRepos = None
          /\ heap = EmptyHeap
          /\ callerRepos = None
       \/ \E names \in RepoLists :
            /\ heap = NewRepoArray(EmptyHeap, names).heap
            /\ callerRepos = Some(NewRepoArray(EmptyHeap, names).ref)
            /\ selectedRepos = Some(NewRepoArray(EmptyHeap, names).ref)
    /\ returnedRepos = None
    /\ out = None

\* The repo list of a session and the lists in the hands of the caller.
NextRepos ==
    \/ \E names \in RepoLists : SetSelectedRepos(names)
    \/ ClearSelectedRepos
    \/ GetSelectedRepos
    \/ ToSerializedChatTranscript
    \/ \E array \in HeldByCaller :
            \E i \in 1..Len(heap[array].elems), name \in RepoNames :
                CallerRenamesRepo(array, i, name)
    \/ \E array \in HeldByCaller : CallerPopsRepo(array)

SpecRepos == InitRepos /\ [][NextRepos]_vars

\* ---------------------------------------------------------------- properties
\* I2 (pairing): the turn at every even index is human, at every odd index
\* assistant (indices from 0).
I2(msgs) ==
    \A i \in 1..Len(msgs) :
        msgs[i].speaker = (IF i % 2 = 1 THEN "human" ELSE "assistant")

Called(name) == call.name = name

Returned(name) == call.name = name /\ raised = NoError

\* The first n turns of a transcript (none when n <= 0).
FirstTurns(msgs, n) == [i \in 1..n |-> msgs[i]]

\* C1: after any sequence of addHumanMessage / addBotMessage calls that return
\* without raising, every even index holds a human turn and every odd index an
\* assistant turn.
C1_Alternation == raised = NoError => I2(messages)

\* C2: addErrorAsBotMessage never fails and always leaves a transcript with a
\* human turn at every even index and an assistant turn at every odd index.
C2_ErrorKeepsAlternation ==
    Called("addErrorAsBotMessage") => raised = NoError /\ I2(messages)

\* C3: when the last turn is human, addHumanMessage raises and leaves the
\* transcript as it was.
C3_RejectDoubleHuman ==
    (Called("addHumanMessage") /\ SpeakerAt(prev, -1) = "human")
        => /\ raised = "Cannot add a user message after a user message"
           /\ messages = prev

C3_Witness ==
    /\ Called("addHumanMessage")
    /\ Len(prev) = 3
    /\ prev[3].speaker = "human"
    /\ raised # NoError
    /\ Len(messages) = 3

\* C4: when the last turn is an assistant turn with non-empty text,
\* addBotMessage raises, whatever its content, and leaves the transcript as it was.
C4_RejectDoubleBot ==
    (Called("addBotMessage") /\ SpeakerAt(prev, -1) = "assistant"
                             /\ Truthy(prev[Len(prev)].text))
        => /\ raised = "Cannot add a bot message after a bot message"
           /\ messages = prev

C4_Witness ==
    /\ Called("addBotMessage")
    /\ call.text = Some("")
    /\ Len(prev) = 2
    /\ prev[2].speaker = "assistant"
    /\ prev[2].text = Some("hello ")
    /\ raised # NoError
    /\ messages = prev

\* C5: with a human turn last, addErrorAsBotMessage(e) then addBotMessage with
\* non-empty text t gives the transcript as it was before both calls plus one
\* assistant turn, whose text is t and whose error is the normalized e.
C5_ErrorReplacesPlaceholder ==
    [][(/\ Returned("addErrorAsBotMessage")
        /\ SpeakerAt(prev, -1) = "human"
        /\ call'.name = "addBotMessage"
        /\ Truthy(call'.text))
       => /\ raised' = NoError
          /\ Len(messages') = Len(prev) + 1
          /\ FirstTurns(messages', Len(prev)) = prev
          /\ messages'[Len(prev) + 1].speaker = "assistant"
          /\ messages'[Len(prev) + 1].text = call'.text
          /\ messages'[Len(prev) + 1].error = Some(errorToChatError(call.error))]_vars

C5_Witness ==
    /\ Returned("addBotMessage")
    /\ call.text = Some("hello ")
    /\ Len(prev) = 2
    /\ prev[1].speaker = "human"
    /\ prev[2] = ChatMessage("assistant", None, None, None, Some(errorToChatError("boom")))
    /\ Len(messages) = 2
    /\ messages[2].text = Some("hello ")
    /\ messages[2].error = Some(errorToChatError("boom"))

\* C6: for a transcript of n turns satisfying I2, toSerializedChatTranscript
\* returns ceil(n/2) interactions; interaction k holds turn 2k as humanMessage
\* and turn 2k+1 as assistantMessage, which is null exactly in the last
\* interaction of an odd-length transcript.
C6_OneInteractionPerPair ==
    (Called("toSerializedChatTranscript") /\ I2(messages))
        => /\ raised = NoError
           /\ Len(ret) = (Len(messages) + 1) \div 2
           /\ \A k \in 0..(Len(ret) - 1) :
                /\ ret[k + 1].humanMessage.speaker = "human"
                /\ ret[k + 1].humanMessage.text = messages[2 * k + 1].text
                /\ ret[k + 1].humanMessage.contextFiles = messages[2 * k + 1].contextFiles
                /\ ret[k + 1].humanMessage.displayText = getDisplayText(messages[2 * k + 1])
                /\ (ret[k + 1].assistantMessage = None) <=> (2 * k + 2 > Len(messages))
                /\ 2 * k + 2 <= Len(messages) =>
                     /\ ret[k + 1].assistantMessage[1].speaker = "assistant"
                     /\ ret[k + 1].assistantMessage[1].text = messages[2 * k + 2].text
                     /\ ret[k + 1].assistantMessage[1].error = messages[2 * k + 2].error
                     /\ ret[k + 1].assistantMessage[1].displayText
                            = getDisplayText(messages[2 * k + 2])

C6_Witness ==
    /\ Returned("toSerializedChatTranscript")
    /\ Len(messages) = 3
    /\ I2(messages)
    /\ Len(ret) = 2
    /\ ret[1].assistantMessage # None
    /\ ret[1].assistantMessage[1].text = Some("hello ")
    /\ ret[2].humanMessage.text = Some("@a.ts")
    /\ ret[2].assistantMessage = None

\* C7: toSerializedChatTranscript raises whenever the turn at some even offset
\* is not a human turn, and never raises on a transcript that satisfies I2.
C7_SerializeRaisesOnParity ==
    Called("toSerializedChatTranscript")
        => /\ (\E i \in 1..Len(messages) : i % 2 = 1 /\ messages[i].speaker # "human")
                => raised # NoError
           /\ I2(messages) => raised = NoError

C7_Witness ==
    /\ Called("toSerializedChatTranscript")
    /\ Len(messages) = 3
    /\ messages[1].speaker = "assistant"
    /\ raised = "expected human message, got bot"
    /\ ret = <<>>

\* C8 (as claimed): when removeMessagesFromIndex(index, expectedSpeaker) is
\* accepted, the transcript is left equal to the turns that were before index,
\* for every index the operation accepts.
C8_TruncatesToTurnsBeforeIndex ==
    Returned("removeMessagesFromIndex") => messages = FirstTurns(prev, call.index)

\* C8 (amended): an accepted index >= 0 leaves exactly the first index turns; a
\* negative index counts from the end, so an accepted index < 0 leaves exactly
\* the first Len + index turns.
C8_TruncatesToResolvedIndex ==
    Returned("removeMessagesFromIndex")
        => /\ call.index >= 0 => messages = FirstTurns(prev, call.index)
           /\ call.index < 0 => messages = FirstTurns(prev, Len(prev) + call.index)

C8_Witness ==
    /\ Returned("removeMessagesFromIndex")
    /\ call.index = 1
    /\ Len(prev) = 3
    /\ prev[2].speaker = call.speaker
    /\ messages = <<prev[1]>>

\* C9: removeMessagesFromIndex raises and leaves the transcript unmodified when
\* the transcript is empty or when the turn at index (none included) does not
\* have speaker expectedSpeaker.
C9_TruncationGuard ==
    (Called("removeMessagesFromIndex")
        /\ (isEmpty(prev) \/ SpeakerAt(prev, call.index) # call.speaker))
        => /\ raised # NoError
           /\ messages = prev

C9_Witness ==
    /\ Called("removeMessagesFromIndex")
    /\ call.index = 1
    /\ call.speaker = "human"
    /\ Len(prev) = 2
    /\ prev[2].speaker = "assistant"
    /\ raised # NoError
    /\ messages = prev

\* The positions of the items of a list that are not classified as ignored.
KeptPositions(items) == {i \in 1..Len(items) : ~isCodyIgnoredFile(items[i].uri)}

\* r is the subsequence of the items that are not ignored, in their order.
IsKeptSubsequence(r, items) ==
    /\ Len(r) = Cardinality(KeptPositions(items))
    /\ \A i \in KeptPositions(items) :
            r[Cardinality({k \in KeptPositions(items) : k < i}) + 1] = items[i]

\* C10: after setLastMessageContext(items) with a human turn last, the
\* contextFiles of that turn is the subsequence of the items not classified as
\* ignored, in their original order; calling it again with the same items
\* leaves the same transcript.
C10_ContextFiltering ==
    /\ [](Returned("setLastMessageContext")
            => /\ messages[Len(messages)].contextFiles # None
               /\ IsKeptSubsequence(messages[Len(messages)].contextFiles[1], call.items))
    /\ [][(/\ Returned("setLastMessageContext")
           /\ call'.name = "setLastMessageContext"
           /\ call'.items = call.items)
          => raised' = NoError /\ messages' = messages]_vars

C10_Witness ==
    /\ Returned("setLastMessageContext")
    /\ call.items = <<ContextItem("secret.env"), ContextItem("b.ts")>>
    /\ prev[Len(prev)].contextFiles = Some(<<ContextItem("b.ts"), ContextItem("a.ts")>>)
    /\ messages[Len(messages)].contextFiles = Some(<<ContextItem("b.ts")>>)

\* C11: setLastMessageContext raises when the transcript is empty or when the
\* last turn is an assistant turn (an error-bearing placeholder included), and
\* then no contextFiles of any turn is changed.
C11_ContextGuard ==
    Called("setLastMessageContext")
        => /\ isEmpty(prev) => raised = "no last message"
           /\ SpeakerAt(prev, -1) = "assistant"
                => raised = "Cannot set new context used for bot message"
           /\ (isEmpty(prev) \/ SpeakerAt(prev, -1) = "assistant")
                => /\ Len(messages) = Len(prev)
                   /\ \A i \in 1..Len(prev) : messages[i].contextFiles = prev[i].contextFiles

C11_Witness ==
    /\ Called("setLastMessageContext")
    /\ Len(prev) = 2
    /\ prev[1].contextFiles # None
    /\ prev[2] = ChatMessage("assistant", None, None, None, Some(errorToChatError("boom")))
    /\ raised = "Cannot set new context used for bot message"
    /\ messages = prev

\* C18: with an assistant turn last, addErrorAsBotMessage(e) keeps the length
\* and replaces that turn by one that differs from it only in error, which is
\* the normalized e; with a human turn last it appends one assistant turn that
\* carries only the error.
C18_ErrorReusesLastAssistantTurn ==
    Called("addErrorAsBotMessage")
        => /\ SpeakerAt(prev, -1) = "assistant"
                => /\ raised = NoError
                   /\ Len(messages) = Len(prev)
                   /\ FirstTurns(messages, Len(prev) - 1) = FirstTurns(prev, Len(prev) - 1)
                   /\ messages[Len(prev)].speaker = "assistant"
                   /\ messages[Len(prev)].text = prev[Len(prev)].text
                   /\ messages[Len(prev)].displayText = prev[Len(prev)].displayText
                   /\ messages[Len(prev)].contextFiles = prev[Len(prev)].contextFiles
                   /\ messages[Len(prev)].error = Some(errorToChatError(call.error))
           /\ SpeakerAt(prev, -1) = "human"
                => /\ raised = NoError
                   /\ Len(messages) = Len(prev) + 1
                   /\ FirstTurns(messages, Len(prev)) = prev
                   /\ messages[Len(prev) + 1]
                        = ChatMessage("assistant", None, None, None,
                                      Some(errorToChatError(call.error)))

C18_Witness ==
    /\ Called("addErrorAsBotMessage")
    /\ call.error = "limit"
    /\ Len(prev) = 2
    /\ prev[2] = ChatMessage("assistant", Some("hello "), Some("shown"), None,
                             Some(errorToChatError("boom")))
    /\ messages[2] = ChatMessage("assistant", Some("hello "), Some("shown"), None,
                                 Some(errorToChatError("limit")))

\* C19: in every state reached by any interleaving of the operations, failed
\* calls included, no two adjacent turns have the same speaker.
C19_NoAdjacentSameSpeaker ==
    \A i \in 1..(Len(messages) - 1) : messages[i].speaker # messages[i + 1].speaker

C19_Witness ==
    /\ Returned("addBotMessage")
    /\ Len(prev) = 2
    /\ prev[2].speaker = "assistant"
    /\ prev[2].text = Some("")
    /\ Len(messages) = 2
    /\ messages[1].speaker = "human"
    /\ messages[2].text = Some("hello ")

\* The indices (from 0) of the turns of a speaker.
IndicesOf(msgs, speaker) == {i \in 0..(Len(msgs) - 1) : msgs[i + 1].speaker = speaker}

\* C12: getLastSpeakerMessageIndex(speaker) returns the highest index whose
\* turn has the speaker, and undefined when no turn has it.
C12_LastSpeakerIndex ==
    Called("getLastSpeakerMessageIndex")
        => /\ IndicesOf(messages, call.speaker) # {}
                => /\ out # None
                   /\ out[1] \in IndicesOf(messages, call.speaker)
                   /\ \A i \in IndicesOf(messages, call.speaker) : i <= out[1]
           /\ IndicesOf(messages, call.speaker) = {} => out = None

\* C13 (as claimed): once a custom title is set, getChatTitle() returns it,
\* whatever the messages, for every title that can be set.
C13_CustomTitleWins ==
    (Called("getChatTitle") /\ customChatTitle # None)
        => out = Some(Chars(customChatTitle[1]))

\* C13 (what the code guarantees): once a non-empty custom title is set, getChatTitle() returns
\* it after any sequence of message operations, none of which changes it.
C13_NonEmptyCustomTitleWins ==
    /\ []((Called("getChatTitle") /\ Truthy(customChatTitle))
            => out = Some(Chars(customChatTitle[1])))
    /\ [][call'.name # "setCustomChatTitle" => customChatTitle' = customChatTitle]_vars

C13_Witness ==
    /\ Called("getChatTitle")
    /\ customChatTitle = Some("Foo")
    /\ Len(messages) = 3
    /\ messages[3].speaker = "human"
    /\ messages[3].text = Some("explain the chat session model please")
    /\ out = Some(<<"F", "o", "o">>)

\* The most recent human turn of a transcript that has one.
LastHumanTurn(msgs) ==
    msgs[(CHOOSE i \in IndicesOf(msgs, "human") :
            \A j \in IndicesOf(msgs, "human") : j <= i) + 1]

\* C14: with no custom title, getChatTitle() returns the title derived from
\* the display text of the most recent human turn in the transcript, and
\* "New Chat" when there is no human turn or it has no display text.
C14_DerivedTitle ==
    (Called("getChatTitle") /\ customChatTitle = None)
        => out = Some(IF IndicesOf(messages, "human") # {}
                            /\ Truthy(getDisplayText(LastHumanTurn(messages)))
                      THEN getChatPanelTitle(
                              Chars(getDisplayText(LastHumanTurn(messages))[1]))
                      ELSE <<"N", "e", "w", " ", "C", "h", "a", "t">>)

C14_Witness ==
    /\ Called("getChatTitle")
    /\ customChatTitle = None
    /\ Len(messages) = 3
    /\ messages[1].text = Some("explain the chat session model please")
    /\ messages[3].text = Some("@a.ts")
    /\ messages[3].contextFiles = Some(<<ContextItem("a.ts")>>)
    /\ out = Some(<<"@", "a", ".", "t", "s">>)

CallerMutations == {"caller: repo.name =", "caller: repos.pop()"}

\* C15: once the transcript has received a repo list, through setSelectedRepos
\* or at construction, no mutation by the caller of an array or element it
\* holds (its own, or one handed out by getSelectedRepos or in the serialized
\* record) changes what getSelectedRepos() returns.
C15_RepoIsolation ==
    [][call'.name \in CallerMutations
        => ReposValue(heap', selectedRepos') = ReposValue(heap, selectedRepos)]_vars

\* C16: in every record toSerializedChatTranscript returns, id and
\* lastInteractionTimestamp are the sessionID given at construction, chatModel
\* is the current modelID, chatTitle is customChatTitle (absent when none is
\* set), and enhancedContext.selectedRepos is present iff selectedRepos is set.
C16_SerializedRecordFields ==
    /\ [](Returned("toSerializedChatTranscript")
            => /\ out # None
               /\ out[1].id = sessionID
               /\ out[1].lastInteractionTimestamp = sessionID
               /\ out[1].chatModel = modelID
               /\ out[1].chatTitle = customChatTitle
               /\ (out[1].enhancedContext # None) <=> (selectedRepos # None))
    /\ [][sessionID' = sessionID]_vars

C16_Witness ==
    /\ Returned("toSerializedChatTranscript")
    /\ sessionID = "Tue, 02 Jan 2024 11:30:00 GMT"
    /\ modelID = "openai/gpt-4"
    /\ customChatTitle = Some("Foo")
    /\ selectedRepos # None
    /\ Len(messages) = 1
    /\ messages[1].text = Some("@a.ts")
    /\ out[1].chatTitle = Some("Foo")
    /\ out[1].enhancedContext # None

\* What a serialization returned, with the repo list by value.
ReturnedValue ==
    [raised |-> raised, interactions |-> ret,
     record |-> IF out = None THEN None
                ELSE Some([out[1] EXCEPT !.enhancedContext = ReposValue(heap, returnedRepos)])]

\* C17: toSerializedChatTranscript leaves messages, modelID, sessionID,
\* customChatTitle and selectedRepos as they were, whether it returns or
\* raises; a second serialization right after a first returns an equal record.
C17_SerializationIsPure ==
    /\ [][call'.name = "toSerializedChatTranscript"
            => /\ messages' = messages
               /\ modelID' = modelID
               /\ sessionID' = sessionID
               /\ customChatTitle' = customChatTitle
               /\ selectedRepos' = selectedRepos
               /\ ReposValue(heap', selectedRepos') = ReposValue(heap, selectedRepos)]_vars
    /\ [][(Called("toSerializedChatTranscript") /\ call'.name = "toSerializedChatTranscript")
            => ReturnedValue' = ReturnedValue]_vars

C17_Witness ==
    /\ Returned("toSerializedChatTranscript")
    /\ Len(messages) = 2
    /\ messages[1].text = Some("@a.ts")
    /\ messages[1].contextFiles # None
    /\ messages[1].displayText = None
    /\ ret[1].humanMessage.displayText = Some("[_@a.ts_](a.ts)")
    /\ messages[2].displayText = None
    /\ ret[1].assistantMessage[1].displayText = Some("hello")
    /\ selectedRepos # None

AppendingOperations ==
    {"addHumanMessage", "addBotMessage", "addErrorAsBotMessage", "setLastMessageContext"}

\* C20: addHumanMessage, addBotMessage, addErrorAsBotMessage and
\* setLastMessageContext leave every turn but the last as it was, never remove
\* a human turn, change the length by at most one (addBotMessage and
\* addErrorAsBotMessage by zero when the last turn is an assistant turn), and
\* leave sessionID, modelID, customChatTitle and selectedRepos as they were.
C20_AppendingOperationsFrame ==
    [][call'.name \in AppendingOperations
        => /\ Len(messages') >= Len(messages) - 1
           /\ Len(messages') <= Len(messages) + 1
           /\ FirstTurns(messages', Len(messages) - 1) = FirstTurns(messages, Len(messages) - 1)
           /\ SpeakerAt(messages, -1) = "human"
                => /\ Len(messages') >= Len(messages)
                   /\ messages'[Len(messages)].speaker = "human"
                   /\ messages'[Len(messages)].text = messages[Len(messages)].text
           /\ (call'.name \in {"addBotMessage", "addErrorAsBotMessage"}
                    /\ SpeakerAt(messages, -1) = "assistant")
                => Len(messages') = Len(messages)
           /\ sessionID' = sessionID
           /\ modelID' = modelID
           /\ customChatTitle' = customChatTitle
           /\ selectedRepos' = selectedRepos
           /\ ReposValue(heap', selectedRepos') = ReposValue(heap, selectedRepos)]_vars

C20_Witness ==
    /\ Returned("addBotMessage")
    /\ Len(prev) = 2
    /\ prev[2] = ChatMessage("assistant", None, None, None, Some(errorToChatError("boom")))
    /\ Len(messages) = 2
    /\ messages[1] = prev[1]
    /\ messages[2].text = Some("hello ")
    /\ modelID = "openai/gpt-4"
    /\ customChatTitle = Some("Foo")
    /\ selectedRepos # None

====
